---- MODULE Spec2Model ----
(***************************************************************************)
(* QuickCompressDXT.cpp (nvidia-texture-tools, branch 2.0): the per-block  *)
(* DXT1 / DXT1a / DXT1G / DXT5A quick compressors as a state machine.      *)
(*                                                                         *)
(* The C++ code computes in IEEE-754 binary32 (`float`).  The model keeps  *)
(* that arithmetic: a float is a triple <<sign, mantissa, exponent>> with  *)
(* value sign * mantissa * 2^exponent, mantissa = 0 or in [2^23, 2^24),    *)
(* and every operation rounds to nearest, ties to even, as the hardware    *)
(* does.  All intermediate integers stay below 2^31.                       *)
(***************************************************************************)
EXTENDS Integers, Sequences, FiniteSets, TLC

(***************************************************************************)
(* binary32 arithmetic                                                     *)
(***************************************************************************)

\* Done(v) is TRUE for every v; as a guard it makes v a value before what follows
Done(v) == v = v

\* With(v, Body) is Body(v): a local variable that holds the value v, computed
\* once, before the body, as a C++ initialiser is.  With2 does so for two values:
\* the arguments of a function, passed by value.
With(v, Body(_)) == CHOOSE r \in {Body(x) : x \in {v}} : TRUE

With2(v, w, Body(_, _)) == CHOOSE r \in {Body(x, y) : x \in {v}, y \in {w}} : TRUE

FZero == <<1, 0, 0>>

\* number of significant bits of n, 0 <= n < 2^31
BitLen(n) ==
    IF n < 65536
    THEN IF n < 256
         THEN IF n < 16
              THEN IF n < 4 THEN (IF n < 2 THEN n ELSE 2) ELSE (IF n < 8 THEN 3 ELSE 4)
              ELSE IF n < 64 THEN (IF n < 32 THEN 5 ELSE 6) ELSE (IF n < 128 THEN 7 ELSE 8)
         ELSE IF n < 4096
              THEN IF n < 1024 THEN (IF n < 512 THEN 9 ELSE 10) ELSE (IF n < 2048 THEN 11 ELSE 12)
              ELSE IF n < 16384 THEN (IF n < 8192 THEN 13 ELSE 14) ELSE (IF n < 32768 THEN 15 ELSE 16)
    ELSE IF n < 16777216
         THEN IF n < 1048576
              THEN IF n < 262144 THEN (IF n < 131072 THEN 17 ELSE 18) ELSE (IF n < 524288 THEN 19 ELSE 20)
              ELSE IF n < 4194304 THEN (IF n < 2097152 THEN 21 ELSE 22) ELSE (IF n < 8388608 THEN 23 ELSE 24)
         ELSE IF n < 268435456
              THEN IF n < 67108864 THEN (IF n < 33554432 THEN 25 ELSE 26) ELSE (IF n < 134217728 THEN 27 ELSE 28)
              ELSE IF n < 1073741824 THEN (IF n < 536870912 THEN 29 ELSE 30) ELSE 31

\* the float nearest to sgn * (n + d) * 2^e, where d = 0 when sticky = 0 and
\* 0 < d < 1 when sticky = 1 (then n has at least 26 bits); ties to even
\* n of len > 24 bits rounded to 24 bits: q the kept bits, r the dropped ones
RoundMantissa(q, r, half, sticky) ==
    IF r > half \/ (r = half /\ (sticky = 1 \/ q % 2 = 1)) THEN q + 1 ELSE q

RoundPack(sgn, mag, e, sticky) ==
    With(mag, LAMBDA n :
    IF n = 0 THEN FZero
    ELSE With(BitLen(n), LAMBDA len :
         IF len <= 24
         THEN <<sgn, n * 2^(24 - len), e - (24 - len)>>
         ELSE With(RoundMantissa(n \div 2^(len - 24), n % 2^(len - 24), 2^(len - 25), sticky),
              LAMBDA m :
              IF m = 16777216 THEN <<sgn, 8388608, e + (len - 24) + 1>>
                              ELSE <<sgn, m, e + (len - 24)>>)))

FNeg(a) == IF a[2] = 0 THEN a ELSE <<-a[1], a[2], a[3]>>

\* |a| >= |b| for normalised floats
FMagGeq(a, b) ==
    IF b[2] = 0 THEN TRUE
    ELSE IF a[2] = 0 THEN FALSE
    ELSE a[3] > b[3] \/ (a[3] = b[3] /\ a[2] >= b[2])

\* the smaller operand's mantissa, with 6 guard bits, aligned d bits down
Aligned(m, d) == IF d >= 31 THEN 0 ELSE (m * 64) \div 2^d
Sticky(m, d) == IF d >= 31 THEN 1 ELSE (IF (m * 64) % 2^d = 0 THEN 0 ELSE 1)

FAddOrdered(a, b) ==
    \* |a| >= |b| > 0
    With(a[3] - b[3], LAMBDA d :
    RoundPack(a[1],
              IF a[1] = b[1] THEN a[2] * 64 + Aligned(b[2], d)
                             ELSE a[2] * 64 - Aligned(b[2], d) - Sticky(b[2], d),
              a[3] - 6, Sticky(b[2], d)))

FAdd(a, b) ==
    With2(a, b, LAMBDA x, y :
    IF x[2] = 0 THEN y
    ELSE IF y[2] = 0 THEN x
    ELSE With(FMagGeq(x, y), LAMBDA ordered :
         FAddOrdered(IF ordered THEN x ELSE y, IF ordered THEN y ELSE x)))

FSub(a, b) == FAdd(a, FNeg(b))

\* the 48-bit product of two 24-bit mantissas h1 * 2^12 + l1 and h2 * 2^12 + l2,
\* as <<high 24 bits, low 24 bits>>
MulMiddle(h1, l1, h2, l2) == h1 * l2 + l1 * h2 + ((l1 * l2) \div 4096)
MulParts(h1, l1, h2, l2) ==
    With(MulMiddle(h1, l1, h2, l2), LAMBDA t :
    <<h1 * h2 + (t \div 4096), (t % 4096) * 4096 + ((l1 * l2) % 4096)>>)

FMul(a, b) ==
    With2(a, b, LAMBDA x, y :
    IF x[2] = 0 \/ y[2] = 0 THEN FZero
    ELSE With(MulParts(x[2] \div 4096, x[2] % 4096, y[2] \div 4096, y[2] % 4096), LAMBDA p :
         RoundPack(x[1] * y[1], p[1] * 64 + (p[2] \div 262144), x[3] + y[3] + 18,
                   IF p[2] % 262144 = 0 THEN 0 ELSE 1)))

\* long division, one digit in base `base`: qr = <<quotient, remainder>> so far,
\* remainder < den < 2^24, base <= 128
LongDiv(qr, den, base) ==
    With(qr, LAMBDA x : <<x[1] * base + (x[2] * base) \div den, (x[2] * base) % den>>)

\* <<floor(num * 2^27 / den), num * 2^27 % den>> for num < 2 * den
Quotient27(num, den) ==
    LongDiv(LongDiv(LongDiv(LongDiv(<<num \div den, num % den>>, den, 128), den, 128), den, 128),
            den, 64)

FDivRound(sgn, qr, e) ==
    With(qr, LAMBDA x : RoundPack(sgn, x[1], e, IF x[2] = 0 THEN 0 ELSE 1))

FDiv(a, b) ==
    \* b # 0
    With2(a, b, LAMBDA x, y :
    IF x[2] = 0 THEN FZero
    ELSE FDivRound(x[1] * y[1], Quotient27(x[2], y[2]), x[3] - y[3] - 27))

FromInt(n) == RoundPack(IF n < 0 THEN -1 ELSE 1, IF n < 0 THEN -n ELSE n, 0, 0)

\* |a| < |b| for normalised floats
FMagLess(a, b) == a[3] < b[3] \/ (a[3] = b[3] /\ a[2] < b[2])

FLess(x, y) ==
    With2(x, y, LAMBDA a, b :
    IF a[2] = 0 THEN b[2] # 0 /\ b[1] = 1
    ELSE IF b[2] = 0 THEN a[1] = -1
    ELSE IF a[1] # b[1] THEN a[1] = -1
    ELSE IF a[1] = 1 THEN FMagLess(a, b) ELSE FMagLess(b, a))

FGreater(a, b) == FLess(b, a)

FAbs(a) == <<1, a[2], a[3]>>

\* uint(f) for f >= 0: truncation toward zero
FToUint(x) ==
    With(x, LAMBDA a :
    IF a[2] = 0 \/ a[1] = -1 THEN 0
    ELSE IF a[3] >= 0 THEN a[2] * 2^a[3]
    ELSE IF -a[3] >= 31 THEN 0
    ELSE a[2] \div 2^(-a[3]))

\* nv::min / nv::max / nv::clamp on floats
FMin(a, b) == With2(a, b, LAMBDA x, y : IF FLess(y, x) THEN y ELSE x)
FMax(a, b) == With2(a, b, LAMBDA x, y : IF FLess(x, y) THEN y ELSE x)
FClamp(x, lo, hi) == FMin(FMax(x, lo), hi)

\* the literals 0.0f, 1.0f, 255.0f, 0.5f
F0   == FZero
F1   == <<1, 8388608, -23>>
F255 == <<1, 16711680, -16>>
FHalf == <<1, 8388608, -24>>

(***************************************************************************)
(* Vector3 (a triple of floats), componentwise                             *)
(***************************************************************************)

V3(x, y, z) == <<x, y, z>>
V3Add(a, b) == [i \in 1..3 |-> FAdd(a[i], b[i])]
V3Sub(a, b) == [i \in 1..3 |-> FSub(a[i], b[i])]
V3Scale(v, s) == [i \in 1..3 |-> FMul(v[i], s)]
V3Max(a, b) == [i \in 1..3 |-> FMax(a[i], b[i])]
V3Min(a, b) == [i \in 1..3 |-> FMin(a[i], b[i])]
V3Clamp(v, lo, hi) == [i \in 1..3 |-> FClamp(v[i], lo, hi)]
V3Dot(a, b) ==
    With([i \in 1..3 |-> FMul(a[i], b[i])], LAMBDA p : FAdd(FAdd(p[1], p[2]), p[3]))

\* lerp(v1, v2, t): s = 1 - t; v1 * s + t * v2
lerp(v1, v2, t) ==
    With(FSub(F1, t), LAMBDA s :
    [i \in 1..3 |-> FAdd(FMul(v1[i], s), FMul(t, v2[i]))])

NV_EPSILON == FDiv(FromInt(1), FromInt(10000))

\* equal(f0, 0.0f): |f0| <= NV_EPSILON * max(1, |f0|, 0), NV_EPSILON = 0.0001f
equalZero(f) == ~ FLess(FMul(NV_EPSILON, FMax(F1, FAbs(f))), FAbs(f))

(***************************************************************************)
(* Colour blocks                                                           *)
(***************************************************************************)

Color32(r, g, b, a) == [r |-> r, g |-> g, b |-> b, a |-> a]

ColorVec(c) == [i \in 1..3 |-> FromInt(<<c.r, c.g, c.b>>[i])]

extractColorBlockRGB(rgba) == [i \in 1..16 |-> ColorVec(rgba[i])]

extractColorBlockRGBA(rgba) ==
    With(SelectSeq(rgba, LAMBDA c : c.a > 127), LAMBDA visible :
    [i \in 1..Len(visible) |-> ColorVec(visible[i])])

\* The loops below are folds over the samples; the guard Done(next) makes the
\* accumulator a value at every iteration, in loop order.

RECURSIVE BoxFold(_, _, _)
\* box = <<maxColor, minColor>>
BoxFold(block, i, box) ==
    IF i > Len(block) THEN box
    ELSE LET next == <<V3Max(box[1], block[i]), V3Min(box[2], block[i])>>
         IN IF Done(next) THEN BoxFold(block, i + 1, next) ELSE box

findMinMaxColorsBox(block) == BoxFold(block, 1, <<V3(F0, F0, F0), V3(F255, F255, F255)>>)

\* cov_xz += t.x * t.z; cov_yz += t.y * t.z
Covariance(t, cov) == <<FAdd(cov[1], FMul(t[1], t[3])), FAdd(cov[2], FMul(t[2], t[3]))>>

RECURSIVE CovFold(_, _, _, _)
CovFold(block, i, center, cov) ==
    IF i > Len(block) THEN cov
    ELSE LET next == Covariance(V3Sub(block[i], center), cov)
         IN IF Done(next) THEN CovFold(block, i + 1, center, next) ELSE cov

selectDiagonal(block, maxColor, minColor) ==
    With(CovFold(block, 1, V3Scale(V3Add(maxColor, minColor), FHalf), <<F0, F0>>), LAMBDA cov :
    With(FLess(cov[1], F0), LAMBDA swapx :
    With(FLess(cov[2], F0), LAMBDA swapy :
    <<V3(IF swapx THEN minColor[1] ELSE maxColor[1],
         IF swapy THEN minColor[2] ELSE maxColor[2],
         maxColor[3]),
      V3(IF swapx THEN maxColor[1] ELSE minColor[1],
         IF swapy THEN maxColor[2] ELSE minColor[2],
         minColor[3])>>)))

InsetEpsilon == FDiv(FDiv(FromInt(8), F255), FromInt(16))
Sixteenth == FDiv(F1, FromInt(16))

insetBBox(maxColor, minColor) ==
    With(V3Sub(V3Scale(V3Sub(maxColor, minColor), Sixteenth), [i \in 1..3 |-> InsetEpsilon]),
         LAMBDA inset :
    <<V3Clamp(V3Sub(maxColor, inset), F0, F255),
      V3Clamp(V3Add(minColor, inset), F0, F255)>>)

Scale5 == FDiv(FromInt(31), F255)
Scale6 == FDiv(FromInt(63), F255)

\* Quantize without the + 0.5f: truncation instead of rounding
QuantizeTruncate(x, scale, top) == FToUint(FClamp(FMul(x, scale), F0, FromInt(top)))

Quantize(x, scale, top) == FToUint(FAdd(FClamp(FMul(x, scale), F0, FromInt(top)), FHalf))

Expand5(v) == v * 8 + (v \div 4)
Expand6(v) == v * 4 + (v \div 16)

Pack565(r, g, b) == r * 2048 + g * 32 + b

\* <<packed 5:6:5 word, bit-replicated 8-bit expansion as a Vector3>>
roundAndExpand(v) ==
    With(Quantize(v[1], Scale5, 31), LAMBDA r :
    With(Quantize(v[2], Scale6, 63), LAMBDA g :
    With(Quantize(v[3], Scale5, 31), LAMBDA b :
    <<Pack565(r, g, b),
      V3(FromInt(Expand5(r)), FromInt(Expand6(g)), FromInt(Expand5(b)))>>)))

colorDistance(c0, c1) == With(V3Sub(c0, c1), LAMBDA d : V3Dot(d, d))

Third == FDiv(F1, FromInt(3))
TwoThirds == FDiv(FromInt(2), FromInt(3))

Bit(p) == IF p THEN 1 ELSE 0

\* the branchless selection network of computeIndices4 / computeGreenIndices
Network(d0gd3, d1gd2, d0gd2, d1gd3, d2gd3) ==
    Bit(d0gd3 /\ d2gd3) + 2 * Bit((d1gd2 /\ d0gd2) \/ (d0gd3 /\ d1gd3))

Index4(color, palette) ==
    With([k \in 1..4 |-> colorDistance(palette[k], color)], LAMBDA d :
    Network(FGreater(d[1], d[4]), FGreater(d[2], d[3]), FGreater(d[1], d[3]),
            FGreater(d[2], d[4]), FGreater(d[3], d[4])))

computeIndices4(block, maxColor, minColor) ==
    With(<<maxColor, minColor,
           lerp(maxColor, minColor, Third),
           lerp(maxColor, minColor, TwoThirds)>>, LAMBDA palette :
    [i \in 1..16 |-> Index4(block[i], palette)])

\* beta weight of a 2-bit index: 0, 1, 1/3, 2/3
Beta4(bits) ==
    IF bits = 0 THEN F0
    ELSE IF bits = 1 THEN F1
    ELSE IF bits = 2 THEN Third
    ELSE TwoThirds

\* acc = <<alpha2_sum, beta2_sum, alphabeta_sum, alphax_sum, betax_sum>>
Accumulate4(x, alpha, beta, acc) ==
    <<FAdd(acc[1], FMul(alpha, alpha)),
      FAdd(acc[2], FMul(beta, beta)),
      FAdd(acc[3], FMul(alpha, beta)),
      V3Add(acc[4], V3Scale(x, alpha)),
      V3Add(acc[5], V3Scale(x, beta))>>

RECURSIVE Sums4(_, _, _, _)
Sums4(block, indices, i, acc) ==
    IF i > 16 THEN acc
    ELSE LET next == With(Beta4(indices[i]), LAMBDA beta :
                          Accumulate4(block[i], FSub(F1, beta), beta, acc))
         IN IF Done(next) THEN Sums4(block, indices, i + 1, next) ELSE acc

Denominator(s) == FSub(FMul(s[1], s[2]), FMul(s[3], s[3]))

BlockDXT1(col0, col1, indices) == [col0 |-> col0, col1 |-> col1, indices |-> indices]

\* the endpoint of optimizeEndPoints4: (x * p - y * q) * factor, clamped, then
\* rounded and expanded
EndPoint4(x, p, y, q, factor) ==
    roundAndExpand(V3Clamp(V3Scale(V3Sub(V3Scale(x, p), V3Scale(y, q)), factor), F0, F255))

optimizeEndPoints4(block, dxtBlock) ==
    With(Sums4(block, dxtBlock.indices, 1, <<F0, F0, F0, V3(F0, F0, F0), V3(F0, F0, F0)>>), LAMBDA s :
    With(Denominator(s), LAMBDA denom :
    IF equalZero(denom) THEN dxtBlock
    ELSE With(FDiv(F1, denom), LAMBDA factor :
         With(<<EndPoint4(s[4], s[2], s[5], s[3], factor),
                EndPoint4(s[5], s[1], s[4], s[3], factor)>>, LAMBDA ab :
         With(IF ab[1][1] < ab[2][1] THEN <<ab[2], ab[1]>> ELSE ab, LAMBDA e :
         BlockDXT1(e[1][1], e[2][1], computeIndices4(block, e[1][2], e[2][2])))))))

\* QuantizeDXT1 without lines 544..548: the endpoints are never exchanged
QuantizeDXT1NoSwap(rgba) ==
    With(extractColorBlockRGB(rgba), LAMBDA block :
    With(findMinMaxColorsBox(block), LAMBDA box :
    With(selectDiagonal(block, box[1], box[2]), LAMBDA diag :
    With(insetBBox(diag[1], diag[2]), LAMBDA ins :
    With(<<roundAndExpand(ins[1]), roundAndExpand(ins[2])>>, LAMBDA e :
    BlockDXT1(e[1][1], e[2][1], computeIndices4(block, e[1][2], e[2][2])))))))

\* compressDXT1(ColorBlock), up to and including the first index assignment
QuantizeDXT1(rgba) ==
    With(extractColorBlockRGB(rgba), LAMBDA block :
    With(findMinMaxColorsBox(block), LAMBDA box :
    With(selectDiagonal(block, box[1], box[2]), LAMBDA diag :
    With(insetBBox(diag[1], diag[2]), LAMBDA ins :
    With(<<roundAndExpand(ins[1]), roundAndExpand(ins[2])>>, LAMBDA q :
    With(IF q[1][1] < q[2][1] THEN <<q[2], q[1]>> ELSE q, LAMBDA e :
    BlockDXT1(e[1][1], e[2][1], computeIndices4(block, e[1][2], e[2][2]))))))))

compressDXT1Block(rgba) ==
    With(QuantizeDXT1(rgba), LAMBDA quantized :
    optimizeEndPoints4(extractColorBlockRGB(rgba), quantized))

(***************************************************************************)
(* compressDXT1a: 3-colour + transparent                                   *)
(***************************************************************************)

\* Index3 with the visibility threshold off by one
Index3Inclusive(c, palette) ==
    With([k \in 1..3 |-> colorDistance(palette[k], ColorVec(c))], LAMBDA d :
    IF c.a <= 128 THEN 3
    ELSE IF FLess(d[1], d[2]) /\ FLess(d[1], d[3]) THEN 0
    ELSE IF FLess(d[2], d[3]) THEN 1
    ELSE 2)

Index3(c, palette) ==
    With([k \in 1..3 |-> colorDistance(palette[k], ColorVec(c))], LAMBDA d :
    IF c.a < 128 THEN 3
    ELSE IF FLess(d[1], d[2]) /\ FLess(d[1], d[3]) THEN 0
    ELSE IF FLess(d[2], d[3]) THEN 1
    ELSE 2)

computeIndices3(rgba, maxColor, minColor) ==
    With(<<minColor, maxColor, V3Scale(V3Add(minColor, maxColor), FHalf)>>, LAMBDA palette :
    [i \in 1..16 |-> Index3(rgba[i], palette)])

\* ColorBlock::hasAlpha is not part of the file.  Its answer is TRUE when a sample
\* is below the visibility threshold, FALSE when every sample is opaque (255), and
\* left open in between.
hasAlphaAnswers(rgba) ==
    IF \E i \in 1..16 : rgba[i].a < 128 THEN {TRUE}
    ELSE IF \A i \in 1..16 : rgba[i].a = 255 THEN {FALSE}
    ELSE {TRUE, FALSE}

\* the else branch of compressDXT1a(ColorBlock)
compressDXT1aAlpha(rgba) ==
    With(extractColorBlockRGBA(rgba), LAMBDA block :
    With(findMinMaxColorsBox(block), LAMBDA box :
    With(selectDiagonal(block, box[1], box[2]), LAMBDA diag :
    With(insetBBox(diag[1], diag[2]), LAMBDA ins :
    With(<<roundAndExpand(ins[1]), roundAndExpand(ins[2])>>, LAMBDA q :
    With(IF q[1][1] < q[2][1] THEN <<q[2], q[1]>> ELSE q, LAMBDA e :
    BlockDXT1(e[2][1], e[1][1], computeIndices3(rgba, e[1][2], e[2][2]))))))))

(***************************************************************************)
(* compressDXT1(Color32): single colour                                    *)
(***************************************************************************)

\* the bitwise complement of one 2-bit index
Complement2(index) == 3 - index

\* indices ^= 0x55555555 on one 2-bit index: the low bit flips
Xor1(index) == IF index % 2 = 0 THEN index + 1 ELSE index - 1

\* t5 = OMatch5[c.r], t6 = OMatch6[c.g], u5 = OMatch5[c.b]: rows <<[0], [1]>>
compressDXT1Color(t5, t6, u5) ==
    LET c0 == Pack565(t5[1], t6[1], u5[1])
        c1 == Pack565(t5[2], t6[2], u5[2])
        indices == [i \in 1..16 |-> 2]
    IN IF c0 < c1 THEN BlockDXT1(c1, c0, [i \in 1..16 |-> Xor1(indices[i])])
                  ELSE BlockDXT1(c0, c1, indices)

(***************************************************************************)
(* compressDXT1G: green channel search                                     *)
(***************************************************************************)

Abs(x) == IF x < 0 THEN -x ELSE x
Min2(a, b) == IF b < a THEN b ELSE a
Max2(a, b) == IF a < b THEN b ELSE a

RECURSIVE GreenErrorFold(_, _, _, _)
GreenErrorFold(rgba, palette, i, total) ==
    IF i > 16 THEN total
    ELSE LET green == rgba[i].g
             e0 == Abs(green - palette[1])
             e1 == Min2(e0, Abs(green - palette[2]))
             e2 == Min2(e1, Abs(green - palette[3]))
             e3 == Min2(e2, Abs(green - palette[4]))
         IN GreenErrorFold(rgba, palette, i + 1, total + e3)

\* g0, g1: the 6-bit green fields of col0 and col1
computeGreenError(rgba, g0, g1) ==
    LET p0 == Expand6(g0)
        p1 == Expand6(g1)
    IN GreenErrorFold(rgba, <<p0, p1, (2 * p0 + p1) \div 3, (2 * p1 + p0) \div 3>>, 1, 0)

Green6(c) == c.g \div 4

MinGreen(rgba) == CHOOSE m \in {Green6(rgba[i]) : i \in 1..16} :
                      \A i \in 1..16 : m <= Green6(rgba[i])
MaxGreen(rgba) == CHOOSE m \in {Green6(rgba[i]) : i \in 1..16} :
                      \A i \in 1..16 : m >= Green6(rgba[i])

\* the pruning test with its comparison turned round
PrunedInverted(maxg, ming, g0, g1, besterror) == (maxg - g0) + (g1 - ming) < besterror

\* the pruning test of the search: skip the pair when TRUE
Pruned(maxg, ming, g0, g1, besterror) == (maxg - g0) + (g1 - ming) > besterror

\* BlockDXT1::evaluatePalette, green channel only (not part of the file)
evaluatePaletteGreen(col0, col1) ==
    LET p0 == Expand6((col0 \div 32) % 64)
        p1 == Expand6((col1 \div 32) % 64)
    IN IF col0 > col1 THEN <<p0, p1, (2 * p0 + p1) \div 3, (2 * p1 + p0) \div 3>>
                      ELSE <<p0, p1, (p0 + p1) \div 2, 0>>

computeGreenIndices(rgba, palette) ==
    [i \in 1..16 |->
        LET color == rgba[i].g
            d0 == Abs(palette[1] - color)
            d1 == Abs(palette[2] - color)
            d2 == Abs(palette[3] - color)
            d3 == Abs(palette[4] - color)
        IN Network(d0 > d3, d1 > d2, d0 > d2, d1 > d3, d2 > d3)]

(***************************************************************************)
(* compressDXT5A: alpha ramp                                               *)
(***************************************************************************)

AlphaBlockDXT5(alpha0, alpha1, indices) ==
    [alpha0 |-> alpha0, alpha1 |-> alpha1, indices |-> indices]

\* AlphaBlockDXT5::evaluatePalette (not part of the file): the format's rule
evaluatePalette(block) ==
    LET a0 == block.alpha0
        a1 == block.alpha1
    IN IF a0 > a1
       THEN <<a0, a1, (6 * a0 + 1 * a1) \div 7, (5 * a0 + 2 * a1) \div 7,
              (4 * a0 + 3 * a1) \div 7, (3 * a0 + 4 * a1) \div 7,
              (2 * a0 + 5 * a1) \div 7, (1 * a0 + 6 * a1) \div 7>>
       ELSE <<a0, a1, (4 * a0 + 1 * a1) \div 5, (3 * a0 + 2 * a1) \div 5,
              (2 * a0 + 3 * a1) \div 5, (1 * a0 + 4 * a1) \div 5, 0, 255>>

RECURSIVE NearestAlpha(_, _, _, _, _)
\* <<best, besterror>> over palette entries p..8, first minimum wins
NearestAlpha(alphas, alpha, p, best, besterror) ==
    IF p > 8 THEN <<best, besterror>>
    ELSE LET d     == alphas[p] - alpha
             error == d * d
         IN IF error < besterror THEN NearestAlpha(alphas, alpha, p + 1, p - 1, error)
                                 ELSE NearestAlpha(alphas, alpha, p + 1, best, besterror)

RECURSIVE SumSeq(_, _)
SumSeq(f, i) == IF i = 0 THEN 0 ELSE f[i] + SumSeq(f, i - 1)

\* <<totalError, block with its indices set>>
computeAlphaIndices(rgba, block) ==
    With(evaluatePalette(block), LAMBDA alphas :
    With([i \in 1..16 |-> NearestAlpha(alphas, rgba[i].a, 1, 8, 256 * 256)], LAMBDA near :
    <<SumSeq([i \in 1..16 |-> near[i][2]], 16),
      AlphaBlockDXT5(block.alpha0, block.alpha1, [i \in 1..16 |-> near[i][1]])>>))

AlphaWeight(idx) ==
    IF idx < 2 THEN FSub(F1, FromInt(idx))
    ELSE FDiv(FSub(FromInt(8), FromInt(idx)), FromInt(7))

\* acc = <<alpha2_sum, beta2_sum, alphabeta_sum, alphax_sum, betax_sum>>
Accumulate8(x, alpha, beta, acc) ==
    <<FAdd(acc[1], FMul(alpha, alpha)),
      FAdd(acc[2], FMul(beta, beta)),
      FAdd(acc[3], FMul(alpha, beta)),
      FAdd(acc[4], FMul(alpha, x)),
      FAdd(acc[5], FMul(beta, x))>>

RECURSIVE Sums8(_, _, _, _)
Sums8(rgba, indices, i, acc) ==
    IF i > 16 THEN acc
    ELSE With(With(AlphaWeight(indices[i]), LAMBDA alpha :
                   Accumulate8(FromInt(rgba[i].a), alpha, FSub(F1, alpha), acc)),
              LAMBDA next : Sums8(rgba, indices, i + 1, next))

\* uint(x) of a NaN is undefined.  The values builds produce: 0, the "integer
\* indefinite" 0x80000000 and all-ones 0xFFFFFFFF.  Only the order of such a value
\* against the other endpoint and its low byte are read, so 0x80000000 is written
\* 2^30 (low byte 0, above 255) and 0xFFFFFFFF is written 2^31 - 1 (low byte 255).
UndefinedUint == {0, 2^30, 2^30 + (2^30 - 1)}

\* the values uint(min(max(num * (1.0f / denom), 0.0f), 255.0f)) can take
EndpointValues(num, denom) ==
    IF denom[2] # 0
    THEN {FToUint(FClamp(FMul(num, FDiv(F1, denom)), F0, F255))}
    ELSE IF num[2] = 0 THEN UndefinedUint      \* 0 * inf = NaN
    ELSE IF num[1] = 1 THEN {255}              \* +inf
    ELSE {0}                                   \* -inf

FlipIndex(idx) == IF idx < 2 THEN 1 - idx ELSE 9 - idx

\* optimizeAlpha8 without the canonicalising swap of lines 420..431
optimizeAlpha8NoSwap(rgba, block) ==
    With(Sums8(rgba, block.indices, 1, <<F0, F0, F0, F0, F0>>), LAMBDA s :
    With(Denominator(s), LAMBDA denom :
    { IF a = b
      THEN AlphaBlockDXT5(a % 256, b % 256, [i \in 1..16 |-> 0])
      ELSE AlphaBlockDXT5(a % 256, b % 256, block.indices)
      : a \in EndpointValues(FSub(FMul(s[4], s[2]), FMul(s[5], s[3])), denom),
        b \in EndpointValues(FSub(FMul(s[5], s[1]), FMul(s[4], s[3])), denom) }))

\* the blocks optimizeAlpha8 can leave in *block
optimizeAlpha8(rgba, block) ==
    With(Sums8(rgba, block.indices, 1, <<F0, F0, F0, F0, F0>>), LAMBDA s :
    With(Denominator(s), LAMBDA denom :
    { IF a < b
      THEN AlphaBlockDXT5(b % 256, a % 256, [i \in 1..16 |-> FlipIndex(block.indices[i])])
      ELSE IF a = b
      THEN AlphaBlockDXT5(a % 256, b % 256, [i \in 1..16 |-> 0])
      ELSE AlphaBlockDXT5(a % 256, b % 256, block.indices)
      : a \in EndpointValues(FSub(FMul(s[4], s[2]), FMul(s[5], s[3])), denom),
        b \in EndpointValues(FSub(FMul(s[5], s[1]), FMul(s[4], s[3])), denom) }))

\* (block0.u | mask) == (block1.u | mask), mask = ~uint64(0xFFFF): the OR sets every
\* bit of the index field (bits 16..63) and keeps alpha0 (bits 0..7), alpha1 (8..15)
OrMask(block) == AlphaBlockDXT5(block.alpha0, block.alpha1, [i \in 1..16 |-> 7])

sameIndices(block0, block1) == OrMask(block0) = OrMask(block1)

AlphaBlockDXT3(alpha) == [alpha |-> alpha]

\* compressDXT3A: the 16 fields alpha0..alphaF, each the top 4 bits of a sample's alpha
compressDXT3A(rgba) == AlphaBlockDXT3([i \in 1..16 |-> rgba[i].a \div 16])

MinAlpha(rgba) == CHOOSE m \in {rgba[i].a : i \in 1..16} : \A i \in 1..16 : m <= rgba[i].a
MaxAlpha(rgba) == CHOOSE m \in {rgba[i].a : i \in 1..16} : \A i \in 1..16 : m >= rgba[i].a

\* lines 700..716: <<besterror, block>>
InitialAlphaBlock(rgba) ==
    LET alpha0 == MaxAlpha(rgba)
        alpha1 == MinAlpha(rgba)
    IN computeAlphaIndices(rgba,
           AlphaBlockDXT5(alpha0 - (alpha0 - alpha1) \div 34,
                          alpha1 + (alpha0 - alpha1) \div 34,
                          [i \in 1..16 |-> 0]))

\* the loop body with the exit test `error > besterror`
AlphaLoopBodyContinueOnEqual(rgba, refined, bestblock, besterror) ==
    With(computeAlphaIndices(rgba, refined), LAMBDA ci :
    IF ci[1] > besterror
    THEN [pc |-> "done", block |-> ci[2], bestblock |-> bestblock, besterror |-> besterror]
    ELSE IF sameIndices(ci[2], bestblock)
    THEN [pc |-> "done", block |-> ci[2], bestblock |-> ci[2], besterror |-> besterror]
    ELSE [pc |-> "loop", block |-> ci[2], bestblock |-> ci[2], besterror |-> ci[1]])

\* lines 718..736, after optimizeAlpha8 left `refined`: the next pc, block,
\* bestblock and besterror
AlphaLoopBody(rgba, refined, bestblock, besterror) ==
    With(computeAlphaIndices(rgba, refined), LAMBDA ci :
    IF ci[1] >= besterror
    THEN [pc |-> "done", block |-> ci[2], bestblock |-> bestblock, besterror |-> besterror]
    ELSE IF sameIndices(ci[2], bestblock)
    THEN [pc |-> "done", block |-> ci[2], bestblock |-> ci[2], besterror |-> besterror]
    ELSE [pc |-> "loop", block |-> ci[2], bestblock |-> ci[2], besterror |-> ci[1]])

\* whether optimizeAlpha8 evaluates 1.0f / 0
DividesByZero(rgba, block) ==
    With(Sums8(rgba, block.indices, 1, <<F0, F0, F0, F0, F0>>), LAMBDA s :
    Denominator(s)[2] = 0)

(***************************************************************************)
(* Inputs                                                                  *)
(***************************************************************************)

MaxColour == 3
MaxShape == 2
MaxAlphaLevel == 6
MaxGreenLevel == 4
MaxTableLevel == 2

Functions == {"DXT1", "DXT1a", "DXT1Color", "DXT1aColor", "DXT1G", "DXT3A", "DXT3", "DXT5A", "DXT5"}

\* a block of three runs: samples 1..c1, c1+1..c2, c2+1..16
Block3(p1, p2, p3, c1, c2) ==
    [i \in 1..16 |-> IF i <= c1 THEN p1 ELSE IF i <= c2 THEN p2 ELSE p3]

Shapes == {<<3 * k - 2, 16 - k>> : k \in 1..MaxShape}

Blocks(pixels) ==
    {Block3(p1, p2, p3, sh[1], sh[2]) : p1 \in pixels, p2 \in pixels, p3 \in pixels, sh \in Shapes}

Colour(k, a) == Color32((k * 67) % 256, (k * 101 + 200) % 256, (k * 151 + 54) % 256, a)

Colours == {Colour(k, 255) : k \in 0..MaxColour}
\* blocks of 16 equal samples, of more colours than the three-run blocks use
UniformBlocks == {Block3(Colour(k, 255), Colour(k, 255), Colour(k, 255), 16, 16) : k \in 0..(8 * MaxColour)}
PunchPixels == {Colour(k, a) : k \in 0..1, a \in {0, 127, 128, 255}}
AlphaPixels == {Color32(0, 0, 0, a) : a \in {(k * 37) % 256 : k \in 0..MaxAlphaLevel} \cup {255}}
GreenPixels == {Color32(0, g, 0, 255) : g \in {(k * 11) % 64 : k \in 0..MaxGreenLevel}}
\* greens on, and one step above, the 8-bit expansion of a 6-bit level: blocks whose
\* best pair has an error below the pruning bound of the pairs after it
NearGreenPixels == {Color32(0, g, 0, 255) : g \in {Expand6(40), Expand6(50), Expand6(50) + 1}}

\* samples that differ in colour and in alpha, for the entry points that write a
\* colour half and an alpha half
MixedPixels == {Colour(k, (k * 37) % 256) : k \in 0..2}
\* a block of 16 different samples
RampBlock == [i \in 1..16 |-> Colour(i - 1, ((i - 1) * 37) % 256)]

Inputs(f) ==
    CASE f = "DXT1"  -> Blocks(Colours) \cup UniformBlocks
      [] f = "DXT1a" -> Blocks(PunchPixels)
      [] f = "DXT1G" -> Blocks(GreenPixels) \cup Blocks(NearGreenPixels)
      [] f = "DXT5A" -> Blocks(AlphaPixels)
      [] f \in {"DXT3A", "DXT3", "DXT5"} -> Blocks(MixedPixels) \cup {RampBlock}
      [] OTHER       -> {Block3(Colour(0, 255), Colour(0, 255), Colour(0, 255), 16, 16)}

Table5 == {(k * 13 + 5) % 32 : k \in 0..MaxTableLevel}
Table6 == {(k * 31 + 9) % 64 : k \in 0..MaxTableLevel}
Rows5 == Table5 \X Table5
Rows6 == Table6 \X Table6

NoTable == [r |-> <<0, 0>>, g |-> <<0, 0>>, b |-> <<0, 0>>]

\* the rows OMatch5[c.r], OMatch6[c.g], OMatch5[c.b] of the lookup tables
Tables(f, c) ==
    IF f \in {"DXT1Color", "DXT1aColor"}
    THEN {t \in [r : Rows5, g : Rows6, b : Rows5] : c.r = c.b => t.r = t.b}
    ELSE {NoTable}

InputColours(f) ==
    CASE f = "DXT1Color"  -> {Colour(1, 255), Color32(9, 9, 9, 255)}
      [] f = "DXT1aColor" -> {Colour(1, 0), Colour(1, 128)}
      [] OTHER            -> {Colour(0, 255)}

(***************************************************************************)
(* State                                                                   *)
(***************************************************************************)

VARIABLES
    fn,         \* the entry point called
    rgba,       \* its ColorBlock argument
    color,          \* its Color32 argument
    OMatch,     \* the lookup-table rows it reads
    pc,         \* where the call is: "start", "optimize", "alpha", "search", "store", "finish", "loop", "done"
    hasAlpha,   \* compressDXT1a: the answer of rgba.hasAlpha()
    dxtBlock,   \* the output colour block (of compressDXT3 and compressDXT5: dxtBlock->color)
    dxtAlpha,   \* the output alpha block (of compressDXT3 and compressDXT5: dxtBlock->alpha)
    search,     \* compressDXT1G: g0, g1, besterror, bestg0, bestg1
    block,      \* compressDXT5A: the working block
    bestblock,  \* compressDXT5A
    besterror,  \* compressDXT5A
    divByZero   \* a float division by zero has been evaluated

vars == <<fn, rgba, color, OMatch, pc, hasAlpha, dxtBlock, dxtAlpha, search, block, bestblock, besterror, divByZero, dxtAlpha>>

NoSearch == [g0 |-> 0, g1 |-> 0, besterror |-> 0, bestg0 |-> 0, bestg1 |-> 0]
NoBlock == BlockDXT1(0, 0, [i \in 1..16 |-> 0])
NoAlphaBlock == AlphaBlockDXT5(0, 0, [i \in 1..16 |-> 0])

Init ==
    /\ fn \in Functions
    /\ rgba \in Inputs(fn)
    /\ color \in InputColours(fn)
    /\ OMatch \in Tables(fn, color)
    /\ pc = "start"
    /\ hasAlpha = FALSE
    /\ dxtBlock = NoBlock
    /\ dxtAlpha = NoAlphaBlock
    /\ search = NoSearch
    /\ block = NoAlphaBlock
    /\ bestblock = NoAlphaBlock
    /\ besterror = 0
    /\ divByZero = FALSE

\* compressDXT1(ColorBlock), lines 529..552, called directly or as the first call
\* of compressDXT3 (line 693) and compressDXT5 (line 744)
DXT1Quantize ==
    /\ fn \in {"DXT1", "DXT3", "DXT5"}
    /\ pc = "start"
    /\ dxtBlock' = QuantizeDXT1(rgba)
    /\ pc' = "optimize"
    /\ UNCHANGED <<fn, rgba, color, OMatch, hasAlpha, search, block, bestblock, besterror, divByZero, dxtAlpha>>

\* compressDXT1(ColorBlock), line 554
DXT1Optimize ==
    /\ pc = "optimize"
    /\ dxtBlock' = optimizeEndPoints4(extractColorBlockRGB(rgba), dxtBlock)
    /\ pc' = IF fn \in {"DXT3", "DXT5"} THEN "alpha" ELSE "done"
    /\ UNCHANGED <<fn, rgba, color, OMatch, hasAlpha, search, block, bestblock, besterror, divByZero, dxtAlpha>>

\* compressDXT1a(ColorBlock): the punch-through branch in one step, or the entry
\* into compressDXT1(ColorBlock)
DXT1aStart ==
    /\ fn = "DXT1a"
    /\ pc = "start"
    /\ \E h \in hasAlphaAnswers(rgba) :
          /\ hasAlpha' = h
          /\ IF h THEN /\ dxtBlock' = compressDXT1aAlpha(rgba)
                       /\ pc' = "done"
                  ELSE /\ dxtBlock' = QuantizeDXT1(rgba)
                       /\ pc' = "optimize"
    /\ UNCHANGED <<fn, rgba, color, OMatch, search, block, bestblock, besterror, divByZero, dxtAlpha>>

\* compressDXT1(Color32)
DXT1Color ==
    /\ fn = "DXT1Color"
    /\ pc = "start"
    /\ dxtBlock' = compressDXT1Color(OMatch.r, OMatch.g, OMatch.b)
    /\ pc' = "done"
    /\ UNCHANGED <<fn, rgba, color, OMatch, hasAlpha, search, block, bestblock, besterror, divByZero, dxtAlpha>>

\* compressDXT1a(Color32)
DXT1aColor ==
    /\ fn = "DXT1aColor"
    /\ pc = "start"
    /\ dxtBlock' = IF color.a = 0 THEN BlockDXT1(0, 0, [i \in 1..16 |-> 3])
                             ELSE compressDXT1Color(OMatch.r, OMatch.g, OMatch.b)
    /\ pc' = "done"
    /\ UNCHANGED <<fn, rgba, color, OMatch, hasAlpha, search, block, bestblock, besterror, divByZero, dxtAlpha>>

\* compressDXT1G, lines 615..639: up to the first test of the outer loop
GreenStart ==
    /\ fn = "DXT1G"
    /\ pc = "start"
    /\ LET ming == MinGreen(rgba)
           maxg == MaxGreen(rgba)
       IN /\ dxtBlock' = BlockDXT1(Pack565(31, maxg, 0), Pack565(31, ming, 0), dxtBlock.indices)
          /\ IF maxg - ming > 4
             THEN /\ search' = [g0 |-> ming + 5, g1 |-> ming,
                                besterror |-> computeGreenError(rgba, maxg, ming),
                                bestg0 |-> maxg, bestg1 |-> ming]
                  /\ pc' = IF ming + 5 < maxg THEN "search" ELSE "store"
             ELSE /\ search' = search
                  /\ pc' = "finish"
    /\ UNCHANGED <<fn, rgba, color, OMatch, hasAlpha, block, bestblock, besterror, divByZero, dxtAlpha>>

\* one pass of the inner loop body, lines 641..656, and the loop increments
GreenStep ==
    /\ pc = "search"
    /\ LET ming == MinGreen(rgba)
           maxg == MaxGreen(rgba)
           g0   == search.g0
           g1   == search.g1
           skip == Pruned(maxg, ming, g0, g1, search.besterror)
           error == computeGreenError(rgba, g0, g1)
           better == ~skip /\ error < search.besterror
           inner == g1 + 1 < g0 - 4
           ng0  == IF inner THEN g0 ELSE g0 + 1
           ng1  == IF inner THEN g1 + 1 ELSE ming
       IN /\ dxtBlock' = IF skip THEN dxtBlock
                         ELSE BlockDXT1(Pack565(31, g0, 0), Pack565(31, g1, 0), dxtBlock.indices)
          /\ search' = [g0 |-> ng0, g1 |-> ng1,
                        besterror |-> IF better THEN error ELSE search.besterror,
                        bestg0 |-> IF better THEN g0 ELSE search.bestg0,
                        bestg1 |-> IF better THEN g1 ELSE search.bestg1]
          /\ pc' = IF ng0 < maxg THEN "search" ELSE "store"
    /\ UNCHANGED <<fn, rgba, color, OMatch, hasAlpha, block, bestblock, besterror, divByZero, dxtAlpha>>

\* lines 659..660
GreenStore ==
    /\ pc = "store"
    /\ dxtBlock' = BlockDXT1(Pack565(31, search.bestg0, 0), Pack565(31, search.bestg1, 0),
                             dxtBlock.indices)
    /\ pc' = "finish"
    /\ UNCHANGED <<fn, rgba, color, OMatch, hasAlpha, search, block, bestblock, besterror, divByZero, dxtAlpha>>

\* lines 663..665
GreenFinish ==
    /\ pc = "finish"
    /\ dxtBlock' = BlockDXT1(dxtBlock.col0, dxtBlock.col1,
                             computeGreenIndices(rgba, evaluatePaletteGreen(dxtBlock.col0, dxtBlock.col1)))
    /\ pc' = "done"
    /\ UNCHANGED <<fn, rgba, color, OMatch, hasAlpha, search, block, bestblock, besterror, divByZero, dxtAlpha>>

\* compressDXT3A, called directly or as the second call of compressDXT3 (line 694)
DXT3Alpha ==
    /\ (fn = "DXT3A" /\ pc = "start") \/ (fn = "DXT3" /\ pc = "alpha")
    /\ dxtAlpha' = compressDXT3A(rgba)
    /\ pc' = "done"
    /\ UNCHANGED <<fn, rgba, color, OMatch, hasAlpha, dxtBlock, search, block, bestblock, besterror, divByZero>>

\* compressDXT5A, lines 700..716, called directly or as the second call of
\* compressDXT5 (line 745)
AlphaStart ==
    /\ (fn = "DXT5A" /\ pc = "start") \/ (fn = "DXT5" /\ pc = "alpha")
    /\ LET init == InitialAlphaBlock(rgba)
       IN /\ besterror' = init[1]
          /\ block' = init[2]
          /\ bestblock' = init[2]
    /\ pc' = "loop"
    /\ UNCHANGED <<fn, rgba, color, OMatch, hasAlpha, dxtBlock, dxtAlpha, search, divByZero>>

\* compressDXT5A, one pass of the while loop, and line 739 when it leaves the loop
AlphaIterate ==
    /\ pc = "loop"
    /\ \E refined \in optimizeAlpha8(rgba, block) :
          \E next \in {AlphaLoopBody(rgba, refined, bestblock, besterror)} :
             /\ block' = next.block
             /\ bestblock' = next.bestblock
             /\ besterror' = next.besterror
             /\ pc' = next.pc
             /\ dxtAlpha' = IF next.pc = "done" THEN next.bestblock ELSE dxtAlpha
    /\ divByZero' = (divByZero \/ DividesByZero(rgba, block))
    /\ UNCHANGED <<fn, rgba, color, OMatch, hasAlpha, dxtBlock, search>>

Next ==
    \/ DXT1Quantize
    \/ DXT1Optimize
    \/ DXT1aStart
    \/ DXT1Color
    \/ DXT1aColor
    \/ GreenStart
    \/ GreenStep
    \/ GreenStore
    \/ GreenFinish
    \/ DXT3Alpha
    \/ AlphaStart
    \/ AlphaIterate

Spec == Init /\ [][Next]_vars

\* a call of compressDXT5A that has not returned takes its next step: the function
\* runs on the caller's thread without blocking or waiting
FairSpec == Spec /\ WF_vars(AlphaStart \/ AlphaIterate)

(***************************************************************************)
(* Properties                                                              *)
(***************************************************************************)

\* C1: the colour blocks written by compressDXT1(ColorBlock), after the initial
\* quantization and after optimizeEndPoints4, by compressDXT1(Color32) and by
\* compressDXT1G have packed col0 >= packed col1; the punch-through block of
\* compressDXT1a(ColorBlock), written when hasAlpha() is true, has col0 <= col1.
C1_EndpointOrder ==
    /\ (fn = "DXT1" /\ pc \in {"optimize", "done"}) => dxtBlock.col0 >= dxtBlock.col1
    /\ (fn \in {"DXT3", "DXT5"} /\ pc # "start") => dxtBlock.col0 >= dxtBlock.col1
    /\ (fn = "DXT1a" /\ ~hasAlpha /\ pc \in {"optimize", "done"}) => dxtBlock.col0 >= dxtBlock.col1
    /\ (fn = "DXT1Color" /\ pc = "done") => dxtBlock.col0 >= dxtBlock.col1
    /\ (fn = "DXT1G" /\ pc # "start") => dxtBlock.col0 >= dxtBlock.col1
    /\ (fn = "DXT1a" /\ hasAlpha /\ pc = "done") => dxtBlock.col0 <= dxtBlock.col1

\* a compressDXT1 block whose endpoints optimizeEndPoints4 has replaced
C1_Witness ==
    /\ fn = "DXT1"
    /\ pc = "done"
    /\ dxtBlock.col0 > dxtBlock.col1
    /\ <<dxtBlock.col0, dxtBlock.col1>> # <<QuantizeDXT1(rgba).col0, QuantizeDXT1(rgba).col1>>

(***************************************************************************)
(* The DXT1 format's decoding rule, on packed 5:6:5 words                  *)
(***************************************************************************)

\* the 8-bit channels of a packed word, bit-replicated
Channels(w) == <<Expand5(w \div 2048), Expand6((w \div 32) % 64), Expand5(w % 32)>>

Transparent == <<"transparent">>

\* the colour a 2-bit index denotes in a block with endpoints w0, w1
Decode(w0, w1, index) ==
    LET e0 == Channels(w0)
        e1 == Channels(w1)
    IN IF index = 0 THEN e0
       ELSE IF index = 1 THEN e1
       ELSE IF w0 > w1
       THEN IF index = 2 THEN [k \in 1..3 |-> (2 * e0[k] + e1[k]) \div 3]
                         ELSE [k \in 1..3 |-> (2 * e1[k] + e0[k]) \div 3]
       ELSE IF index = 2 THEN [k \in 1..3 |-> (e0[k] + e1[k]) \div 2]
                         ELSE Transparent

AllIndices(indices, v) == \A i \in 1..16 : indices[i] = v

(***************************************************************************)
(* compressDXT1a(ColorBlock)                                               *)
(***************************************************************************)

PunchThroughDone == fn = "DXT1a" /\ hasAlpha /\ pc = "done"

\* C2: for a block whose 16 samples all have alpha 0, compressDXT1a(ColorBlock)
\* writes index 3 for every sample and both packed endpoints are 0.
C2_TransparentBlock ==
    (PunchThroughDone /\ \A i \in 1..16 : rgba[i].a = 0)
        => /\ AllIndices(dxtBlock.indices, 3)
           /\ dxtBlock.col0 = 0
           /\ dxtBlock.col1 = 0

\* squared distance of a sample to a palette colour, both doubled
Distance2(px, doubled) ==
    (2 * px.r - doubled[1]) * (2 * px.r - doubled[1])
    + (2 * px.g - doubled[2]) * (2 * px.g - doubled[2])
    + (2 * px.b - doubled[3]) * (2 * px.b - doubled[3])

\* the index in {0, 1, 2} of a visible sample, from the endpoints stored in the
\* block: 0 is col0, 1 is col1, 2 is their midpoint
NearestOfThree(px, w0, w1) ==
    LET e0 == Channels(w0)
        e1 == Channels(w1)
        d0 == Distance2(px, [k \in 1..3 |-> 2 * e0[k]])
        d1 == Distance2(px, [k \in 1..3 |-> 2 * e1[k]])
        d2 == Distance2(px, [k \in 1..3 |-> e0[k] + e1[k]])
    IN IF d0 < d1 /\ d0 < d2 THEN 0 ELSE IF d1 < d2 THEN 1 ELSE 2

\* C9: in the punch-through block of compressDXT1a(ColorBlock) a sample has index
\* 3 exactly when its alpha is below 128; every other sample has an index in
\* {0, 1, 2}, 0 for the endpoint in col0, 1 for the endpoint in col1 and 2 for
\* their midpoint; the samples with index 3 are the ones the alpha > 127 filter
\* of extractColorBlockRGBA leaves out.
C9_PunchThroughIndices ==
    PunchThroughDone =>
        /\ \A i \in 1..16 : dxtBlock.indices[i] = 3 <=> rgba[i].a < 128
        /\ \A i \in 1..16 :
               rgba[i].a >= 128 =>
                   dxtBlock.indices[i] = NearestOfThree(rgba[i], dxtBlock.col0, dxtBlock.col1)
        /\ Cardinality({i \in 1..16 : dxtBlock.indices[i] # 3}) = Len(extractColorBlockRGBA(rgba))

\* a punch-through block with a hidden sample (index 3), a sample at the
\* threshold (alpha 128) and visible samples at both endpoints
C9_Witness ==
    /\ PunchThroughDone
    /\ \A v \in {0, 1, 3} : \E i \in 1..16 : dxtBlock.indices[i] = v
    /\ \E i \in 1..16 : rgba[i].a = 128

(***************************************************************************)
(* compressDXT1(Color32)                                                   *)
(***************************************************************************)

E0 == Pack565(OMatch.r[1], OMatch.g[1], OMatch.b[1])
E1 == Pack565(OMatch.r[2], OMatch.g[2], OMatch.b[2])

\* what index 2 denotes for the pair (E0, E1) in 4-colour interpolation
TableColour == [k \in 1..3 |-> (2 * Channels(E0)[k] + Channels(E1)[k]) \div 3]

DecodesToTableColour ==
    \A i \in 1..16 : Decode(dxtBlock.col0, dxtBlock.col1, dxtBlock.indices[i]) = TableColour

\* C10: compressDXT1(Color32) starts from E0, E1 and 16 indices equal to 2; when
\* E0 < E1 it swaps the endpoints and XORs the index word with 0x55555555, which
\* turns every index 2 into 3; in all cases every sample decodes to the colour
\* index 2 denotes for (E0, E1) in 4-colour interpolation, never to transparent.
C10_SwapPreservesColour ==
    (fn = "DXT1Color" /\ pc = "done") =>
        /\ E0 < E1 => /\ dxtBlock.col0 = E1
                       /\ dxtBlock.col1 = E0
                       /\ AllIndices(dxtBlock.indices, 3)
        /\ E0 >= E1 => /\ dxtBlock.col0 = E0
                        /\ dxtBlock.col1 = E1
                        /\ AllIndices(dxtBlock.indices, 2)
        /\ DecodesToTableColour

\* C10 as stated: on a swap every bit of the index word is complemented, which
\* turns every index 2 (binary 10) into 1 (binary 01)
C10_SwapComplementsIndices ==
    (fn = "DXT1Color" /\ pc = "done") =>
        /\ E0 < E1 => /\ dxtBlock.col0 = E1
                       /\ dxtBlock.col1 = E0
                       /\ AllIndices(dxtBlock.indices, 1)
        /\ E0 >= E1 => /\ dxtBlock.col0 = E0
                        /\ dxtBlock.col1 = E1
                        /\ AllIndices(dxtBlock.indices, 2)
        /\ DecodesToTableColour

\* a single-colour block whose endpoints were swapped
C10_Witness ==
    /\ fn = "DXT1Color"
    /\ pc = "done"
    /\ E0 < E1
    /\ dxtBlock.col0 > dxtBlock.col1

(***************************************************************************)
(* compressDXT1(ColorBlock) on 16 identical samples                        *)
(***************************************************************************)

\* compressDXT1(ColorBlock) is running or has run, called directly or from
\* compressDXT1a(ColorBlock), compressDXT3 or compressDXT5
InDXT1 ==
    \/ pc \in {"optimize", "done"} /\ (fn = "DXT1" \/ (fn = "DXT1a" /\ ~hasAlpha))
    \/ pc # "start" /\ fn \in {"DXT3", "DXT5"}

Uniform == \A i \in 1..16 : rgba[i] = rgba[1]

\* round-to-nearest quantization of an 8-bit value to `top` levels above 0
Nearest(x, top) == (2 * top * x + 255) \div 510

Nearest565(px) == Pack565(Nearest(px.r, 31), Nearest(px.g, 63), Nearest(px.b, 31))

UniformEndpoints ==
    /\ dxtBlock.col0 = Nearest565(rgba[1])
    /\ dxtBlock.col1 = Nearest565(rgba[1])
    /\ \A i \in 1..16 :
           Decode(dxtBlock.col0, dxtBlock.col1, dxtBlock.indices[i]) = Channels(Nearest565(rgba[1]))
    /\ pc # "optimize" => dxtBlock = QuantizeDXT1(rgba)

\* C7: for 16 identical samples compressDXT1(ColorBlock) writes col0 = col1 = the
\* round-to-nearest 5:6:5 quantization of the colour, every sample gets the same
\* index, 0 or 2 (index word 0 or 0xAAAAAAAA), which denotes that quantized
\* colour, and optimizeEndPoints4 leaves the block unchanged.
C7_UniformBlock ==
    (InDXT1 /\ Uniform) =>
        /\ UniformEndpoints
        /\ AllIndices(dxtBlock.indices, 0) \/ AllIndices(dxtBlock.indices, 2)

\* C7 as stated: the index word is 0
C7_UniformBlockIndexZero ==
    (InDXT1 /\ Uniform) =>
        /\ UniformEndpoints
        /\ AllIndices(dxtBlock.indices, 0)

\* a finished block of 16 identical samples, every sample at index 2
C7_Witness ==
    /\ InDXT1
    /\ pc = "done"
    /\ Uniform
    /\ AllIndices(dxtBlock.indices, 2)

(***************************************************************************)
(* compressDXT5A                                                           *)
(***************************************************************************)

\* compressDXT5A has been called, directly or from compressDXT5
InDXT5A == fn = "DXT5A" \/ (fn = "DXT5" /\ pc \in {"alpha", "loop", "done"})

\* the total error of a block whose indices computeAlphaIndices has assigned
AlphaError(blk) == computeAlphaIndices(rgba, blk)[1]

\* C6: every block compressDXT5A keeps as its best, and the block it returns, has
\* alpha0 >= alpha1, be it the initial inset min/max block or a refined one.
C6_CanonicalAlpha ==
    InDXT5A /\ pc \in {"loop", "done"} =>
        /\ bestblock.alpha0 >= bestblock.alpha1
        /\ block.alpha0 >= block.alpha1
        /\ pc = "done" => dxtAlpha.alpha0 >= dxtAlpha.alpha1

C6_Witness ==
    /\ InDXT5A
    /\ pc = "done"
    /\ dxtAlpha # InitialAlphaBlock(rgba)[2]
    /\ dxtAlpha.alpha0 > dxtAlpha.alpha1

\* C8: a refinement step with a strictly lower error whose 16 indices equal those
\* of the previous best block ends the loop and returns the new block.
C8_CycleDetection ==
    [][(InDXT5A /\ pc = "loop" /\ AlphaError(block') < besterror
                /\ block'.indices = bestblock.indices)
          => (pc' = "done" /\ dxtAlpha' = block')]_vars

\* C4: a refinement step whose determinant is zero leaves the endpoints unchanged
\* and does not divide by the determinant.
C4_SingularLeavesEndpoints ==
    [][(InDXT5A /\ pc = "loop" /\ DividesByZero(rgba, block))
          => (block'.alpha0 = block.alpha0 /\ block'.alpha1 = block.alpha1
              /\ ~divByZero')]_vars

\* C3: while the loop runs besterror strictly decreases and stays non-negative,
\* the block returned has the lowest error of all blocks evaluated (so at most the
\* error of the initial block), and every call of compressDXT5A returns.
C3_ErrorDecreases ==
    [][(InDXT5A /\ pc = "loop" /\ pc' = "loop")
          => (besterror' < besterror /\ besterror' >= 0
              /\ besterror' = AlphaError(block') /\ bestblock' = block')]_vars

C3_ReturnsBest ==
    [][(InDXT5A /\ pc = "loop" /\ pc' = "done")
          => (/\ AlphaError(dxtAlpha') <= besterror
              /\ AlphaError(dxtAlpha') <= AlphaError(block')
              /\ besterror <= InitialAlphaBlock(rgba)[1]
              /\ besterror = AlphaError(bestblock)
              /\ dxtAlpha' \in {bestblock, block'})]_vars

C3_Terminates == (InDXT5A ~> pc = "done")

C3_AlphaLoopTerminates == C3_ErrorDecreases /\ C3_ReturnsBest /\ C3_Terminates

C3_Witness ==
    /\ InDXT5A
    /\ pc = "done"
    /\ besterror < InitialAlphaBlock(rgba)[1]
    /\ dxtAlpha = bestblock
    /\ dxtAlpha # InitialAlphaBlock(rgba)[2]

(***************************************************************************)
(* compressDXT1G                                                           *)
(***************************************************************************)

InDXT1G == fn = "DXT1G"

GreenField(w) == (w \div 32) % 64

\* the pairs the two loops of the search visit
GreenCandidates ==
    {<<g0, g1>> : g0 \in (MinGreen(rgba) + 5)..(MaxGreen(rgba) - 1),
                  g1 \in MinGreen(rgba)..(MaxGreen(rgba) - 6)} \cap
    {pair \in (0..63) \X (0..63) : pair[2] <= pair[1] - 5}

\* the place of a pair in the order of the search, the unrefined pair first
GreenRank(pair) ==
    IF pair = <<MaxGreen(rgba), MinGreen(rgba)>> THEN 0 ELSE 1 + pair[1] * 64 + pair[2]

GreenErrorOf(pair) == computeGreenError(rgba, pair[1], pair[2])

\* the result of the search without the pruning test: the first pair, in the order
\* of the search, of the lowest error
UnprunedSearch ==
    CHOOSE best \in GreenCandidates \cup {<<MaxGreen(rgba), MinGreen(rgba)>>} :
        \A other \in GreenCandidates \cup {<<MaxGreen(rgba), MinGreen(rgba)>>} :
            \/ GreenErrorOf(best) < GreenErrorOf(other)
            \/ GreenErrorOf(best) = GreenErrorOf(other) /\ GreenRank(best) <= GreenRank(other)

\* C5: for a block whose 6-bit green spread exceeds 4, the pair compressDXT1G writes
\* has an error at most that of the unrefined pair (maxg, ming) and of every
\* candidate pair, and is the pair the search without the pruning test returns.
C5_GreenSearchOptimal ==
    (InDXT1G /\ pc = "done" /\ MaxGreen(rgba) - MinGreen(rgba) > 4) =>
        \E written \in {<<GreenField(dxtBlock.col0), GreenField(dxtBlock.col1)>>} :
        \E error \in {GreenErrorOf(written)} :
            /\ error <= computeGreenError(rgba, MaxGreen(rgba), MinGreen(rgba))
            /\ \A pair \in GreenCandidates : error <= GreenErrorOf(pair)
            /\ written = UnprunedSearch
            /\ error = search.besterror

\* a block where the search skipped a pair and found a pair better than the
\* unrefined one
C5_Witness ==
    /\ InDXT1G
    /\ pc = "done"
    /\ MaxGreen(rgba) - MinGreen(rgba) > 4
    /\ GreenField(dxtBlock.col0) # MaxGreen(rgba)
    /\ \E pair \in GreenCandidates :
          /\ GreenRank(pair) > GreenRank(<<GreenField(dxtBlock.col0), GreenField(dxtBlock.col1)>>)
          /\ Pruned(MaxGreen(rgba), MinGreen(rgba), pair[1], pair[2], search.besterror)

====
